---- MODULE Spec2Model ----
(***************************************************************************)
(* A model of the medplane aircraft scanner: the segment-intersection      *)
(* predicate, the monitoring classifier, the self-intersection detector,   *)
(* the aircraft store with its track retention, the loitering-event        *)
(* storage with correlation and expiry, and the scan loop.                 *)
(*                                                                         *)
(* Units.  Latitude and longitude are integers in millidegrees             *)
(* (35.5 deg = 35500), which represents every coordinate of config.ts      *)
(* exactly.  Date.now() is an integer number of milliseconds counted from  *)
(* the construction of the scanner; track timestamps are seconds, as in    *)
(* types.ts.  Altitude is feet, speed knots, distanceToCoast km.           *)
(***************************************************************************)
EXTENDS Integers, Sequences, FiniteSets, TLC

VARIABLES
    aircraft,      \* AircraftScanner.aircraft : icao -> Aircraft (or Absent)
    events,        \* LoiteringStorage.events  : id -> LoiteringEvent (or Absent)
    nextId,        \* number of event ids drawn so far (ids are 1..nextId-1)
    notified,      \* sequence of event ids handed to telegramNotifier.sendNotification
    outcome,       \* how and when each of these sendNotification calls ended, once it has
    now,           \* Date.now(), milliseconds
    ticks,         \* number of clock advances so far (bounds the run)
    lastOp,        \* history: the updateAircraft call that was the last store operation
    running,       \* AircraftScanner.running
    loops,         \* the start() invocations: each one's position in its while loop
    starts,        \* number of start() calls that began a loop (bounds the run)
    gtrack,        \* pure-function specifications: the track under analysis
    gresult,       \* pure-function specifications: the result of the last application
    segA,          \* pure-function specifications: first segment
    segB           \* pure-function specifications: second segment

scannerVars == <<aircraft, events, nextId, notified, outcome, now, ticks, lastOp>>
loopVars == <<running, loops, starts>>
geoVars == <<gtrack, gresult, segA, segB>>
vars == <<aircraft, events, nextId, notified, outcome, now, ticks, lastOp,
          running, loops, starts, gtrack, gresult, segA, segB>>

Absent == [absent |-> TRUE]
NoResult == [none |-> TRUE]

Abs(x) == IF x < 0 THEN -x ELSE x
Min2(a, b) == IF a <= b THEN a ELSE b
Max2(a, b) == IF a >= b THEN a ELSE b

(***************************************************************************)
(* config.ts                                                               *)
(***************************************************************************)
CENTRAL_MED_POLYGON ==
    << <<37557, 12676>>, <<37335, 9863>>, <<35230, 11113>>, <<33866, 10087>>,
       <<32789, 12481>>, <<32887, 13195>>, <<32369, 15082>>, <<31477, 15631>>,
       <<30991, 17625>>, <<30244, 19192>>, <<30272, 19122>>, <<31204, 20164>>,
       <<31976, 19948>>, <<32940, 21716>>, <<36681, 19585>>, <<36681, 15134>> >>

CENTRAL_MED_BOUNDS ==
    [minLat |-> 30244, maxLat |-> 37557, minLon |-> 9863, maxLon |-> 21716]

MONITORING_THRESHOLDS ==
    [altitude |-> [min |-> 100, max |-> 25000],
     speed    |-> [min |-> 50, max |-> 300],
     coast    |-> [minDistance |-> 8]]

(***************************************************************************)
(* utils: areIntersecting.  EPSILON = 1e-12 is far below the resolution of *)
(* the millidegree grid (a difference of coordinates is 0 or at least      *)
(* 1e-3, a product of two differences is 0 or at least 1e-6), so on grid   *)
(* values each comparison against EPSILON is decided as follows.           *)
(***************************************************************************)
\* Math.abs(v) < EPSILON
AbsLtEpsilon(v) == v = 0
\* Math.abs(v) > EPSILON
AbsGtEpsilon(v) == v # 0
\* a <= c + EPSILON
LeqPlusEpsilon(a, c) == a <= c

isPoint(x, y, x2, y2) == AbsLtEpsilon(x - x2) /\ AbsLtEpsilon(y - y2)

\* mutant: shared endpoints are not rejected
endpointsMatch_Never(xa, ya, xb, yb) == FALSE

endpointsMatch(xa, ya, xb, yb) == AbsLtEpsilon(xa - xb) /\ AbsLtEpsilon(ya - yb)

\* mutant: the upper end of the range is not tested
inRange_LowerOnly(a, b, c) == LeqPlusEpsilon(Min2(a, b), c)

inRange(a, b, c) == LeqPlusEpsilon(Min2(a, b), c) /\ LeqPlusEpsilon(c, Max2(a, b))

\* cross(x, y, x0, y0) of the source, with the direction (x2-x1, y2-y1) passed in
crossProduct(x, y, x0, y0, dx, dy) == (x - x0) * dy - (y - y0) * dx

\* mutant: colinear segments are reported without the overlap test
colinearOverlap_Always(x1, y1, x2, y2, x3, y3, x4, y4) == TRUE

\* the colinear branch: some endpoint of one segment lies in the other's range
colinearOverlap(x1, y1, x2, y2, x3, y3, x4, y4) ==
    \/ (inRange(x1, x2, x3) /\ inRange(y1, y2, y3))
    \/ (inRange(x1, x2, x4) /\ inRange(y1, y2, y4))
    \/ (inRange(x3, x4, x1) /\ inRange(y3, y4, y1))
    \/ (inRange(x3, x4, x2) /\ inRange(y3, y4, y2))

\* mutant: the parameter may be 0 or 1
StrictlyInsideUnit_Closed(num, denom) ==
    IF denom > 0 THEN 0 <= num /\ num <= denom
                 ELSE denom <= num /\ num <= 0

\* 0 < num/denom < 1 for denom # 0, the division being exact in the rationals
StrictlyInsideUnit(num, denom) ==
    IF denom > 0 THEN 0 < num /\ num < denom
                 ELSE denom < num /\ num < 0

areIntersecting(seg1, seg2) ==
    LET x1 == seg1.start.longitude  y1 == seg1.start.latitude
        x2 == seg1.end.longitude    y2 == seg1.end.latitude
        x3 == seg2.start.longitude  y3 == seg2.start.latitude
        x4 == seg2.end.longitude    y4 == seg2.end.latitude
        denom == (y4 - y3) * (x2 - x1) - (x4 - x3) * (y2 - y1)
        uaNum == (x4 - x3) * (y1 - y3) - (y4 - y3) * (x1 - x3)
        ubNum == (x2 - x1) * (y1 - y3) - (y2 - y1) * (x1 - x3)
    IN  IF isPoint(x1, y1, x2, y2) \/ isPoint(x3, y3, x4, y4) THEN FALSE
        ELSE IF \/ endpointsMatch(x1, y1, x3, y3) \/ endpointsMatch(x1, y1, x4, y4)
                \/ endpointsMatch(x2, y2, x3, y3) \/ endpointsMatch(x2, y2, x4, y4)
             THEN FALSE
        ELSE IF AbsLtEpsilon(denom)
             THEN IF AbsGtEpsilon(crossProduct(x3, y3, x1, y1, x2 - x1, y2 - y1))
                  THEN FALSE
                  ELSE colinearOverlap(x1, y1, x2, y2, x3, y3, x4, y4)
        ELSE StrictlyInsideUnit(uaNum, denom) /\ StrictlyInsideUnit(ubNum, denom)

(***************************************************************************)
(* utils: areIntersecting on coordinates that are whole multiples of 1e-7  *)
(* degree.  A difference of coordinates is still 0 or far above EPSILON,   *)
(* but a product of two differences is a whole multiple of 1e-14, and      *)
(* EPSILON = 1e-12 is EPSILON_FINE of them.                                *)
(***************************************************************************)
EPSILON_FINE == 100

\* Math.abs(denom) < EPSILON
AbsLtEpsilonFine(v) == -EPSILON_FINE < v /\ v < EPSILON_FINE
\* Math.abs(cross(x3, y3, x1, y1)) > EPSILON
AbsGtEpsilonFine(v) == v > EPSILON_FINE \/ v < -EPSILON_FINE

areIntersectingFine(seg1, seg2) ==
    LET x1 == seg1.start.longitude  y1 == seg1.start.latitude
        x2 == seg1.end.longitude    y2 == seg1.end.latitude
        x3 == seg2.start.longitude  y3 == seg2.start.latitude
        x4 == seg2.end.longitude    y4 == seg2.end.latitude
        denom == (y4 - y3) * (x2 - x1) - (x4 - x3) * (y2 - y1)
        uaNum == (x4 - x3) * (y1 - y3) - (y4 - y3) * (x1 - x3)
        ubNum == (x2 - x1) * (y1 - y3) - (y2 - y1) * (x1 - x3)
    IN  IF isPoint(x1, y1, x2, y2) \/ isPoint(x3, y3, x4, y4) THEN FALSE
        ELSE IF \/ endpointsMatch(x1, y1, x3, y3) \/ endpointsMatch(x1, y1, x4, y4)
                \/ endpointsMatch(x2, y2, x3, y3) \/ endpointsMatch(x2, y2, x4, y4)
             THEN FALSE
        ELSE IF AbsLtEpsilonFine(denom)
             THEN IF AbsGtEpsilonFine(crossProduct(x3, y3, x1, y1, x2 - x1, y2 - y1))
                  THEN FALSE
                  ELSE colinearOverlap(x1, y1, x2, y2, x3, y3, x4, y4)
        ELSE StrictlyInsideUnit(uaNum, denom) /\ StrictlyInsideUnit(ubNum, denom)

(***************************************************************************)
(* aircraft-analyzer: the classifier                                       *)
(***************************************************************************)
\* one iteration of the ray-casting loop: does edge (j -> i) toggle `inside`?
\* ((yi > lon) !== (yj > lon)) && (lat < (xj - xi) * (lon - yi) / (yj - yi) + xi)
edgeToggles(lat, lon, i) ==
    LET n == Len(CENTRAL_MED_POLYGON)
        j == IF i = 1 THEN n ELSE i - 1
        xi == CENTRAL_MED_POLYGON[i][1]  yi == CENTRAL_MED_POLYGON[i][2]
        xj == CENTRAL_MED_POLYGON[j][1]  yj == CENTRAL_MED_POLYGON[j][2]
        den == yj - yi
        num == (xj - xi) * (lon - yi)
    IN  /\ (yi > lon) # (yj > lon)
        /\ IF den > 0 THEN (lat - xi) * den < num ELSE (lat - xi) * den > num

isPointInPolygon(lat, lon) ==
    Cardinality({i \in 1..Len(CENTRAL_MED_POLYGON) : edgeToggles(lat, lon, i)}) % 2 = 1

isInGeoBounds(position) ==
    IF \/ position.latitude < CENTRAL_MED_BOUNDS.minLat
       \/ position.latitude > CENTRAL_MED_BOUNDS.maxLat
       \/ position.longitude < CENTRAL_MED_BOUNDS.minLon
       \/ position.longitude > CENTRAL_MED_BOUNDS.maxLon
    THEN FALSE
    ELSE isPointInPolygon(position.latitude, position.longitude)

isInTargetAltitude(altitude) ==
    /\ altitude >= MONITORING_THRESHOLDS.altitude.min
    /\ altitude <= MONITORING_THRESHOLDS.altitude.max

\* mutant: the limits themselves are out of range
isInTargetSpeed_Exclusive(speed) ==
    /\ speed > MONITORING_THRESHOLDS.speed.min
    /\ speed < MONITORING_THRESHOLDS.speed.max

isInTargetSpeed(speed) ==
    /\ speed >= MONITORING_THRESHOLDS.speed.min
    /\ speed <= MONITORING_THRESHOLDS.speed.max

\* position.distanceToCoast > MONITORING_THRESHOLDS.coast.minDistance
\* distanceToCoast when the sample carries no value (null or undefined, which
\* compare false against every number); real distances are never negative
NullDistance == -1

\* a check that lets a sample without a distance pass
isOverSea_UnknownPasses(position) ==
    \/ position.distanceToCoast = NullDistance
    \/ position.distanceToCoast > MONITORING_THRESHOLDS.coast.minDistance

isOverSea(position) ==
    /\ position.distanceToCoast # NullDistance
    /\ position.distanceToCoast > MONITORING_THRESHOLDS.coast.minDistance

\* Number.toFixed(1) of an integer value v: the digits of v, then ".0"
toFixed1(v) == <<v, 0>>

NoReason == [kind |-> "null"]

\* The not_monitored_reason strings; the two templated ones carry the formatted
\* value and the threshold they quote.
ReasonOutsideArea == [kind |-> "Aircraft is outside the Sicily Channel monitoring area."]
ReasonOverLand == [kind |-> "Aircraft is over land or too close to coast."]
ReasonNoPosition == [kind |-> "No position data available."]
ReasonSpeed(speed) ==
    IF speed < MONITORING_THRESHOLDS.speed.min
    THEN [kind |-> "speed is too slow", value |-> toFixed1(speed),
          limit |-> MONITORING_THRESHOLDS.speed.min]
    ELSE [kind |-> "speed is too fast", value |-> toFixed1(speed),
          limit |-> MONITORING_THRESHOLDS.speed.max]
ReasonAltitude(altitude) ==
    IF altitude < MONITORING_THRESHOLDS.altitude.min
    THEN [kind |-> "altitude is too low", value |-> toFixed1(altitude),
          limit |-> MONITORING_THRESHOLDS.altitude.min]
    ELSE [kind |-> "altitude is too high", value |-> toFixed1(altitude),
          limit |-> MONITORING_THRESHOLDS.altitude.max]

\* mutant: the sea-distance check comes before the area check
checkMonitoringRequirements_SeaFirst(position) ==
    IF ~isOverSea(position)
    THEN [is_monitored |-> FALSE, not_monitored_reason |-> ReasonOverLand]
    ELSE IF ~isInGeoBounds(position)
    THEN [is_monitored |-> FALSE, not_monitored_reason |-> ReasonOutsideArea]
    ELSE IF ~isInTargetSpeed(position.speed)
    THEN [is_monitored |-> FALSE, not_monitored_reason |-> ReasonSpeed(position.speed)]
    ELSE IF ~isInTargetAltitude(position.altitude)
    THEN [is_monitored |-> FALSE, not_monitored_reason |-> ReasonAltitude(position.altitude)]
    ELSE [is_monitored |-> TRUE, not_monitored_reason |-> NoReason]

checkMonitoringRequirements(position) ==
    LET inArea == isInGeoBounds(position)
        inAltitudeRange == isInTargetAltitude(position.altitude)
        inSpeedRange == isInTargetSpeed(position.speed)
        overSea == isOverSea(position)
    IN  IF ~inArea THEN [is_monitored |-> FALSE, not_monitored_reason |-> ReasonOutsideArea]
        ELSE IF ~overSea THEN [is_monitored |-> FALSE, not_monitored_reason |-> ReasonOverLand]
        ELSE IF ~inSpeedRange
             THEN [is_monitored |-> FALSE, not_monitored_reason |-> ReasonSpeed(position.speed)]
        ELSE IF ~inAltitudeRange
             THEN [is_monitored |-> FALSE,
                   not_monitored_reason |-> ReasonAltitude(position.altitude)]
        ELSE [is_monitored |-> TRUE, not_monitored_reason |-> NoReason]

(***************************************************************************)
(* aircraft-analyzer: the detector                                         *)
(***************************************************************************)
\* aircraft.track.slice(1).map((point, i) => ({start: aircraft.track[i], end: point}))
trackSegments(track) ==
    [i \in 1..(IF Len(track) = 0 THEN 0 ELSE Len(track) - 1) |->
        [start |-> track[i], end |-> track[i + 1]]]

\* the (i, j) visited by the two nested loops, in the order they are visited
\* (1-based: i from 1 to n-2, j from i+2 to n)
segmentPairs(n) ==
    SelectSeq([k \in 1..(n * n) |-> <<((k - 1) \div n) + 1, ((k - 1) % n) + 1>>],
              LAMBDA p : p[1] <= n - 2 /\ p[2] >= p[1] + 2)

\* mutant: the four endpoint samples are not classified
allPointsValid_Unchecked(segI, segJ) == TRUE

allPointsValid(segI, segJ) ==
    \A point \in {segI.start, segI.end, segJ.start, segJ.end} :
        checkMonitoringRequirements(point).is_monitored

intersectionOf(segI, segJ) ==
    [segments |-> <<segI, segJ>>,
     timestamp |-> Max2(segI.end.timestamp, segJ.end.timestamp)]

\* mutant: the scan stops at the first qualifying pair
getIntersections_FirstHit(track) ==
    LET segments == trackSegments(track)
        hits == SelectSeq(segmentPairs(Len(segments)),
                          LAMBDA p : /\ areIntersecting(segments[p[1]], segments[p[2]])
                                     /\ allPointsValid(segments[p[1]], segments[p[2]]))
    IN  [k \in 1..Min2(1, Len(hits)) |->
            intersectionOf(segments[hits[k][1]], segments[hits[k][2]])]

getIntersections(track) ==
    LET segments == trackSegments(track)
        hits == SelectSeq(segmentPairs(Len(segments)),
                          LAMBDA p : /\ areIntersecting(segments[p[1]], segments[p[2]])
                                     /\ allPointsValid(segments[p[1]], segments[p[2]]))
    IN  [k \in 1..Len(hits) |-> intersectionOf(segments[hits[k][1]], segments[hits[k][2]])]

hasIntersectingTrack(track) == Len(getIntersections(track)) > 0

\* mutant: the debugging shortcut that reports every aircraft with more than
\* two points as loitering
analyzeAircraft_AllLoitering(track) ==
    IF Len(track) > 2
    THEN [is_monitored |-> TRUE, not_monitored_reason |-> NoReason, is_loitering |-> TRUE]
    ELSE [is_monitored |-> FALSE, not_monitored_reason |-> ReasonNoPosition,
          is_loitering |-> FALSE]

\* mutant: the loitering flag is computed from the track even when the newest
\* sample is not monitored
analyzeAircraft_NoReset(track) ==
    IF Len(track) = 0
    THEN [is_monitored |-> FALSE, not_monitored_reason |-> ReasonNoPosition,
          is_loitering |-> FALSE]
    ELSE LET monitoringCheck == checkMonitoringRequirements(track[1])
         IN  [is_monitored |-> monitoringCheck.is_monitored,
              not_monitored_reason |-> monitoringCheck.not_monitored_reason,
              is_loitering |-> hasIntersectingTrack(track)]

analyzeAircraft(track) ==
    IF Len(track) = 0
    THEN [is_monitored |-> FALSE, not_monitored_reason |-> ReasonNoPosition,
          is_loitering |-> FALSE]
    ELSE LET monitoringCheck == checkMonitoringRequirements(track[1])
         IN  IF ~monitoringCheck.is_monitored
             THEN [is_monitored |-> FALSE,
                   not_monitored_reason |-> monitoringCheck.not_monitored_reason,
                   is_loitering |-> FALSE]
             ELSE [is_monitored |-> TRUE, not_monitored_reason |-> NoReason,
                   is_loitering |-> hasIntersectingTrack(track)]

(***************************************************************************)
(* scanner.ts and storage/loitering-storage.ts: constants                  *)
(***************************************************************************)
INACTIVITY_THRESHOLD_MS == 20 * 60 * 1000
TRACK_RETENTION_MS == 30 * 60 * 1000
SINGLE_EVENT_INACTIVITY_MS == 10 * 60 * 1000
EVENT_EXPIRY_MS == 7 * 24 * 60 * 60 * 1000
updateIntervalMs == 15000

(***************************************************************************)
(* storage/loitering-storage.ts.  `evs` is the Map id -> LoiteringEvent;   *)
(* ids are handed out in increasing order, so the Map's insertion order is *)
(* the order of the ids.                                                   *)
(***************************************************************************)
\* mutant: a save that stamps every event of the aircraft with the saved
\* lastUpdated
saveEvent_StampsIcao(evs, event) ==
    [id \in DOMAIN evs \cup {event.id} |->
        IF id = event.id THEN event
        ELSE IF evs[id].icao = event.icao
             THEN [evs[id] EXCEPT !.lastUpdated = event.lastUpdated]
             ELSE evs[id]]

\* this.events.set(event.id, event)
saveEvent(evs, event) ==
    [id \in DOMAIN evs \cup {event.id} |-> IF id = event.id THEN event ELSE evs[id]]

getEventsByIcao(evs, icao) == {id \in DOMAIN evs : evs[id].icao = icao}

\* events.sort((a, b) => b.lastUpdated - a.lastUpdated)[0]; the sort is stable,
\* so among equal lastUpdated the first inserted comes first
getLatestEventByIcao(evs, icao) ==
    LET ids == getEventsByIcao(evs, icao)
    IN  IF ids = {} THEN Absent
        ELSE evs[CHOOSE id \in ids :
                    \A other \in ids :
                        \/ evs[other].lastUpdated < evs[id].lastUpdated
                        \/ (evs[other].lastUpdated = evs[id].lastUpdated /\ id <= other)]

\* an expiry that also removes an event exactly as old as the horizon
isExpired_Inclusive(event, t) == event.lastUpdated <= t - EVENT_EXPIRY_MS

\* event.lastUpdated < expiryThreshold
isExpired(event, t) == event.lastUpdated < t - EVENT_EXPIRY_MS

cleanupOldEvents(evs, t) ==
    [id \in {i \in DOMAIN evs : ~isExpired(evs[i], t)} |-> evs[id]]

listEvents(evs) == {evs[id] : id \in DOMAIN evs}

\* this.events.get(id)
getEvent(evs, id) == IF id \in DOMAIN evs THEN evs[id] ELSE Absent

(***************************************************************************)
(* scanner.ts.  `st` bundles the scanner's and the storage's state:        *)
(* aircraft, events, nextId, notified.                                     *)
(***************************************************************************)
\* point.timestamp * 1000 > now - TRACK_RETENTION_MS
isRetained(point, t) == point.timestamp * 1000 > t - TRACK_RETENTION_MS

cleanupOldTrackPoints(track, t) == SelectSeq(track, LAMBDA point : isRetained(point, t))

\* a comparison that also looks at the timestamp of the sample
isDuplicate_WithTimestamp(prev, latest) == prev = latest

\* the six fields compared to decide whether the newest sample is a repeat
isDuplicate(prev, latest) ==
    /\ prev.latitude = latest.latitude
    /\ prev.longitude = latest.longitude
    /\ prev.altitude = latest.altitude
    /\ prev.speed = latest.speed
    /\ prev.heading = latest.heading
    /\ prev.verticalRate = latest.verticalRate

aircraftStateOf(latestPosition) ==
    [altitude |-> latestPosition.altitude, speed |-> latestPosition.speed,
     heading |-> latestPosition.heading, verticalRate |-> latestPosition.verticalRate,
     position |-> [latitude |-> latestPosition.latitude,
                   longitude |-> latestPosition.longitude]]

\* mutant: the comparison with the window is the wrong way round
isContinuing_Reversed(event, t) == event.lastUpdated < t - SINGLE_EVENT_INACTIVITY_MS

\* a correlation that ignores the inactivity window
isContinuing_NoWindow(event, t) == TRUE

\* event.lastUpdated > now - SINGLE_EVENT_INACTIVITY_MS
isContinuing(event, t) == event.lastUpdated > t - SINGLE_EVENT_INACTIVITY_MS

\* [...aircraft.track].concat(event.track.filter(point =>
\*     !aircraft.track.some(p => p.timestamp === point.timestamp)))
mergeTracks(track, eventTrack) ==
    track \o SelectSeq(eventTrack,
                       LAMBDA point : ~\E k \in 1..Len(track) :
                                          track[k].timestamp = point.timestamp)

\* mutant: an update that leaves aircraftState as it was
updatedEvent_KeepsState(event, track, intersections, t) ==
    [event EXCEPT !.lastUpdated = t,
                  !.intersectionPoints = intersections,
                  !.track = mergeTracks(track, event.track)]

\* the branch that updates the existing event
updatedEvent(event, track, intersections, t) ==
    [event EXCEPT !.lastUpdated = t,
                  !.intersectionPoints = intersections,
                  !.track = mergeTracks(track, event.track),
                  !.aircraftState = aircraftStateOf(track[1])]

\* mutant: an event created without the intersections that were found
createdEvent_NoIntersections(id, icao, track, intersections, t) ==
    [id |-> id, icao |-> icao, firstDetected |-> t, lastUpdated |-> t,
     intersectionPoints |-> <<>>,
     aircraftState |-> aircraftStateOf(track[1]),
     track |-> track]

\* the branch that creates an event; Math.random().toString(36).substring(2, 15)
\* is taken to be an id no event has had before
createdEvent(id, icao, track, intersections, t) ==
    [id |-> id, icao |-> icao, firstDetected |-> t, lastUpdated |-> t,
     intersectionPoints |-> intersections,
     aircraftState |-> aircraftStateOf(track[1]),
     track |-> track]

\* const isNewEvent = !event
isNewEvent(event) == event = Absent

handleLoiteringDetection(st, icao, track, t) ==
    LET event == getLatestEventByIcao(st.events, icao)
        intersections == getIntersections(track)
        continuing == event # Absent /\ isContinuing(event, t)
        saved == IF continuing
                 THEN updatedEvent(event, track, intersections, t)
                 ELSE createdEvent(st.nextId, icao, track, intersections, t)
    IN  IF Len(intersections) = 0 \/ Len(track) = 0 THEN st
        ELSE [st EXCEPT
                !.events = saveEvent(st.events, saved),
                !.nextId = IF continuing THEN st.nextId ELSE st.nextId + 1,
                !.notified = IF isNewEvent(event)
                             THEN Append(st.notified, saved.id) ELSE st.notified]

\* the track of the tracked aircraft after the first half of updateAircraft
ingestedTrack(tracked, latest, t) ==
    IF tracked = Absent THEN <<latest>>
    ELSE IF Len(tracked.track) = 0 \/ ~isDuplicate(tracked.track[1], latest)
         THEN cleanupOldTrackPoints(<<latest>> \o tracked.track, t)
         ELSE tracked.track

\* a record left with the new track and the flags of the previous sample (those
\* scan() gives a new aircraft: false, null, false)
analysedAircraft_FlagsNotSet(tracked, track) ==
    [track |-> track,
     is_monitored |-> IF tracked = Absent THEN FALSE ELSE tracked.is_monitored,
     not_monitored_reason |-> IF tracked = Absent THEN NoReason
                              ELSE tracked.not_monitored_reason,
     is_loitering |-> IF tracked = Absent THEN FALSE ELSE tracked.is_loitering]

\* mutant: a loitering flag that, once set, stays set
analysedAircraft_StickyLoitering(tracked, track) ==
    LET analysis == analyzeAircraft(track)
    IN  [track |-> track,
         is_monitored |-> analysis.is_monitored,
         not_monitored_reason |-> analysis.not_monitored_reason,
         is_loitering |-> \/ analysis.is_loitering
                          \/ (tracked # Absent /\ tracked.is_loitering)]

\* the tracked aircraft once the result of analyzeAircraft is written to it
analysedAircraft(tracked, track) ==
    LET analysis == analyzeAircraft(track)
    IN  [track |-> track,
         is_monitored |-> analysis.is_monitored,
         not_monitored_reason |-> analysis.not_monitored_reason,
         is_loitering |-> analysis.is_loitering]

\* mutant: the detection handler runs whatever the analysis says
updateAircraft_AlwaysDetects(st, icao, latest, t) ==
    LET track == ingestedTrack(st.aircraft[icao], latest, t)
        analysed == analysedAircraft(st.aircraft[icao], track)
        stored == [st EXCEPT !.aircraft[icao] = analysed]
    IN  handleLoiteringDetection(stored, icao, track, t)

updateAircraft(st, icao, latest, t) ==
    LET track == ingestedTrack(st.aircraft[icao], latest, t)
        analysed == analysedAircraft(st.aircraft[icao], track)
        stored == [st EXCEPT !.aircraft[icao] = analysed]
    IN  IF analysed.is_loitering
        THEN handleLoiteringDetection(stored, icao, track, t)
        ELSE stored

\* aircraft.track[0]?.timestamp ? aircraft.track[0].timestamp * 1000 : 0, compared
\* with now - INACTIVITY_THRESHOLD_MS: an aircraft without a point counts as last
\* seen at the epoch, which is before every threshold
\* a cleanup that also removes an aircraft last seen exactly at the threshold
isInactive_Inclusive(ac, t) ==
    \/ Len(ac.track) = 0
    \/ ac.track[1].timestamp * 1000 <= t - INACTIVITY_THRESHOLD_MS

isInactive(ac, t) ==
    \/ Len(ac.track) = 0
    \/ ac.track[1].timestamp * 1000 < t - INACTIVITY_THRESHOLD_MS

cleanupInactiveAircraft(st, t) ==
    [st EXCEPT !.aircraft =
        [i \in DOMAIN st.aircraft |->
            IF st.aircraft[i] # Absent /\ isInactive(st.aircraft[i], t)
            THEN Absent ELSE st.aircraft[i]]]

\* Array.from(this.aircraft.values())
getAircraft(st) == {st.aircraft[i] : i \in {j \in DOMAIN st.aircraft : st.aircraft[j] # Absent}}

getLoiteringEvents(st) == listEvents(st.events)

getLoiteringEvent(st, id) == getEvent(st.events, id)

(***************************************************************************)
(* Bounds and input sets                                                   *)
(***************************************************************************)
GridMax == 3          \* segment endpoints are drawn from (0..GridMax) x (0..GridMax)
MaxGeoLen == 5        \* longest track handed to the detector on its own

ICAOS == {"a"}


mkPoint(lat, lon, ts, alt, spd, hdg, vr, dist) ==
    [latitude |-> lat, longitude |-> lon, timestamp |-> ts, altitude |-> alt,
     speed |-> spd, heading |-> hdg, verticalRate |-> vr, distanceToCoast |-> dist]

GridPositions == [latitude : 0..GridMax, longitude : 0..GridMax]
GridSegments == [start : GridPositions, end : GridPositions]

\* attribute sets of one sample: all four conditions met / too slow / too high
Flavours == {"ok", "slow", "high"}
flavourAltitude(f) == IF f = "high" THEN 30000 ELSE 10000
flavourSpeed(f) == IF f = "slow" THEN 40 ELSE 250

\* displacements (lat, lon) between consecutive samples, millidegrees
TrackSteps == {<<-500, 500>>, <<500, 0>>, <<-500, -500>>, <<1000, 0>>}
\* the oldest sample of a track: inside the monitoring polygon / outside it
TrackStarts == {<<35500, 12000>>, <<40500, 20000>>}

ClassifierSamples ==
    {mkPoint(lat, 12000, 1, alt, spd, 0, 0, dist) :
        lat \in {35000, 40000}, alt \in {50, 100, 10000, 25000, 30000},
        spd \in {40, 50, 250, 300, 350}, dist \in {5, 8, 20}}

(***************************************************************************)
(* Initial values of the three groups of variables                         *)
(***************************************************************************)
NoOp == [kind |-> "none"]

\* no aircraft of the given icaos is tracked, no event is stored
ScannerInitFor(icaos) ==
    /\ aircraft = [i \in icaos |-> Absent]
    /\ events = [id \in {} |-> Absent]
    /\ nextId = 1
    /\ notified = << >>
    /\ outcome = << >>
    /\ now = 0
    /\ ticks = 0
    /\ lastOp = NoOp

ScannerInit == ScannerInitFor(ICAOS)

LoopInit ==
    /\ running = FALSE
    /\ loops = << >>
    /\ starts = 0

GeoInit ==
    /\ gtrack = << >>
    /\ gresult = NoResult
    /\ segA = [start |-> [latitude |-> 0, longitude |-> 0],
               end |-> [latitude |-> 0, longitude |-> 0]]
    /\ segB = segA

(***************************************************************************)
(* Pure functions applied to drawn inputs                                  *)
(***************************************************************************)
\* areIntersecting(segA, segB)
ApplyAreIntersecting ==
    /\ gresult = NoResult
    /\ gresult' = [op |-> "areIntersecting", value |-> areIntersecting(segA, segB)]
    /\ UNCHANGED <<gtrack, segA, segB>>
    /\ UNCHANGED scannerVars
    /\ UNCHANGED loopVars

SegInit ==
    /\ ScannerInit /\ LoopInit
    /\ gtrack = << >>
    /\ gresult = NoResult
    /\ segA \in GridSegments
    /\ segB \in GridSegments

SegNext == ApplyAreIntersecting

SpecSeg == SegInit /\ [][SegNext]_vars

(***************************************************************************)
(* areIntersecting applied to pairs of segments on the 1e-7 degree grid:   *)
(* short segments near the origin and segments reaching a far corner       *)
(***************************************************************************)
FineFar == 200    \* the far coordinate, in units of 1e-7 degree

FineCoords == {0, 1, 2, FineFar}
FinePositions == [latitude : FineCoords, longitude : FineCoords]
FineSegments == [start : FinePositions, end : FinePositions]

\* areIntersecting(segA, segB)
ApplyAreIntersectingFine ==
    /\ gresult = NoResult
    /\ gresult' = [op |-> "areIntersecting", value |-> areIntersectingFine(segA, segB)]
    /\ UNCHANGED <<gtrack, segA, segB>>
    /\ UNCHANGED scannerVars
    /\ UNCHANGED loopVars

FineInit ==
    /\ ScannerInit /\ LoopInit
    /\ gtrack = << >>
    /\ gresult = NoResult
    /\ segA \in FineSegments
    /\ segB \in FineSegments

FineNext == ApplyAreIntersectingFine

SpecFine == FineInit /\ [][FineNext]_vars

\* a track grows by one sample, newest first
AddTrackPoint(step, f) ==
    /\ Len(gtrack) > 0
    /\ Len(gtrack) < MaxGeoLen
    /\ gtrack' = <<mkPoint(gtrack[1].latitude + step[1], gtrack[1].longitude + step[2],
                           gtrack[1].timestamp + 1, flavourAltitude(f), flavourSpeed(f),
                           0, 0, 20)>> \o gtrack
    /\ gresult' = NoResult
    /\ UNCHANGED <<segA, segB>>
    /\ UNCHANGED scannerVars
    /\ UNCHANGED loopVars

\* AircraftAnalyzer.analyzeAircraft and getIntersections on the track
ApplyAnalyze ==
    /\ gresult = NoResult
    /\ gresult' = [op |-> "analyze", value |-> analyzeAircraft(gtrack),
                   intersections |-> getIntersections(gtrack)]
    /\ UNCHANGED <<gtrack, segA, segB>>
    /\ UNCHANGED scannerVars
    /\ UNCHANGED loopVars

TrackInit ==
    /\ ScannerInit /\ LoopInit
    /\ \E s \in TrackStarts, f \in Flavours :
          gtrack = <<mkPoint(s[1], s[2], 1, flavourAltitude(f), flavourSpeed(f), 0, 0, 20)>>
    /\ gresult = NoResult
    /\ segA = [start |-> [latitude |-> 0, longitude |-> 0],
               end |-> [latitude |-> 0, longitude |-> 0]]
    /\ segB = segA

TrackNext ==
    \/ \E step \in TrackSteps, f \in Flavours : AddTrackPoint(step, f)
    \/ ApplyAnalyze

SpecTrack == TrackInit /\ [][TrackNext]_vars

\* AircraftAnalyzer.checkMonitoringRequirements on one sample
ApplyClassify ==
    /\ gresult = NoResult
    /\ Len(gtrack) = 1
    /\ gresult' = [op |-> "classify", value |-> checkMonitoringRequirements(gtrack[1])]
    /\ UNCHANGED <<gtrack, segA, segB>>
    /\ UNCHANGED scannerVars
    /\ UNCHANGED loopVars

ClassifyInit ==
    /\ ScannerInit /\ LoopInit
    /\ gtrack \in {<<s>> : s \in ClassifierSamples}
    /\ gresult = NoResult
    /\ segA = [start |-> [latitude |-> 0, longitude |-> 0],
               end |-> [latitude |-> 0, longitude |-> 0]]
    /\ segB = segA

ClassifyNext == ApplyClassify

SpecClassify == ClassifyInit /\ [][ClassifyNext]_vars

(***************************************************************************)
(* The scanner and the storage driven operation by operation               *)
(***************************************************************************)
MaxTrack == 4         \* a sample is ingested only while the track stays this short
MaxEvents == 2        \* events created in one run
MaxTicks == 2         \* clock advances in one run

\* the clock advances by five minutes or by the event retention horizon
TickMs == {5 * 60 * 1000, EVENT_EXPIRY_MS}

\* the route flown by a reported aircraft: the bowtie (35.5,12.0) (35.0,12.5)
\* (35.5,12.5) (35.0,12.0), over and over
Route == <<<<35500, 12000>>, <<35000, 12500>>, <<35500, 12500>>, <<35000, 12000>>>>

routeIndex(point) ==
    CHOOSE k \in 1..Len(Route) :
        Route[k][1] = point.latitude /\ Route[k][2] = point.longitude

nextOnRoute(ac) ==
    IF ac = Absent \/ Len(ac.track) = 0 THEN Route[1]
    ELSE Route[(routeIndex(ac.track[1]) % Len(Route)) + 1]

\* the reports a provider may deliver for an aircraft at time t: the next
\* corner of the route within all thresholds, the corner that closes the
\* bowtie flown too slowly, or the newest stored position again
ScanSamples(ac, t) ==
    LET c == nextOnRoute(ac)
    IN  {mkPoint(c[1], c[2], t \div 1000, 10000, 250, 0, 0, 20)}
        \cup (IF c = Route[Len(Route)]
              THEN {mkPoint(c[1], c[2], t \div 1000, 10000, 40, 0, 0, 20)}
              ELSE {})
        \cup (IF ac = Absent \/ Len(ac.track) = 0 THEN {}
              ELSE {[ac.track[1] EXCEPT !.timestamp = t \div 1000]})

scannerState == [aircraft |-> aircraft, events |-> events, nextId |-> nextId,
                 notified |-> notified]

\* the sample repeats the newest stored point in the six compared fields
repeatsNewest(ac, latest) ==
    /\ ac # Absent
    /\ Len(ac.track) > 0
    /\ \A f \in {"latitude", "longitude", "altitude", "speed", "heading", "verticalRate"} :
          ac.track[1][f] = latest[f]

SetScannerState(st) ==
    /\ aircraft' = st.aircraft
    /\ events' = st.events
    /\ nextId' = st.nextId
    /\ notified' = st.notified

\* AircraftScanner.updateAircraft with the aircraft scan() builds from one report
UpdateAircraft(icao, latest) ==
    LET st == updateAircraft(scannerState, icao, latest, now)
        identical == /\ lastOp.kind = "updateAircraft"
                     /\ lastOp.icao = icao
                     /\ repeatsNewest(aircraft[icao], latest)
    IN  /\ Len(st.aircraft[icao].track) <= MaxTrack
        /\ st.nextId <= MaxEvents + 1
        /\ SetScannerState(st)
        /\ lastOp' = [kind |-> "updateAircraft", icao |-> icao,
                      identical |-> identical]
        /\ UNCHANGED <<now, ticks, outcome>>
        /\ UNCHANGED loopVars
        /\ UNCHANGED geoVars

\* AircraftScanner.cleanupInactiveAircraft
CleanupInactiveAircraft ==
    /\ SetScannerState(cleanupInactiveAircraft(scannerState, now))
    /\ lastOp' = NoOp
    /\ UNCHANGED <<now, ticks, outcome>>
    /\ UNCHANGED loopVars
    /\ UNCHANGED geoVars

\* LoiteringStorage.cleanupOldEvents, run by the storage's hourly timer
CleanupOldEvents ==
    /\ events' = cleanupOldEvents(events, now)
    /\ lastOp' = NoOp
    /\ UNCHANGED <<aircraft, nextId, notified, outcome, now, ticks>>
    /\ UNCHANGED loopVars
    /\ UNCHANGED geoVars

\* time passes
Tick(d) ==
    /\ ticks < MaxTicks
    /\ now' = now + d
    /\ ticks' = ticks + 1
    /\ UNCHANGED <<aircraft, events, nextId, notified, outcome, lastOp>>
    /\ UNCHANGED loopVars
    /\ UNCHANGED geoVars

Init == ScannerInit /\ LoopInit /\ GeoInit

Next ==
    \/ \E icao \in ICAOS : \E latest \in ScanSamples(aircraft[icao], now) : UpdateAircraft(icao, latest)
    \/ CleanupInactiveAircraft
    \/ CleanupOldEvents
    \/ \E d \in TickMs : Tick(d)

Spec == Init /\ [][Next]_vars

(***************************************************************************)
(* The analyzer applied to tracks whose samples lack a coast distance      *)
(***************************************************************************)
\* the distanceToCoast of a sample: none, the 0 a provider substitutes for a
\* missing value, the threshold, and values beyond it
CoastDistances == {NullDistance, 0, 8, 9, 20}

\* the tracks that follow the bowtie route, within the area, speed and altitude
\* thresholds, each sample with any of the coast distances; newest first
CoastTracks ==
    UNION {{[k \in 1..n |->
                mkPoint(Route[n + 1 - k][1], Route[n + 1 - k][2], n + 1 - k,
                        10000, 250, 0, 0, ds[k])] :
              ds \in [1..n -> CoastDistances]} : n \in 1..Len(Route)}

CoastInit ==
    /\ ScannerInit /\ LoopInit
    /\ gtrack \in CoastTracks
    /\ gresult = NoResult
    /\ segA = [start |-> [latitude |-> 0, longitude |-> 0],
               end |-> [latitude |-> 0, longitude |-> 0]]
    /\ segB = segA

CoastNext == ApplyAnalyze

SpecCoast == CoastInit /\ [][CoastNext]_vars

(***************************************************************************)
(* Calls of analyzeAircraft on one analyzer.  A call is given the analyzer *)
(* instance and an aircraft object, both of which it could assign to, and  *)
(* returns a result.                                                       *)
(***************************************************************************)
MaxCalls == 2         \* calls of analyzeAircraft in one run

\* the AircraftAnalyzer instance: the class declares no field
NoMemo == [fields |-> {}]

\* an analysis that writes its result to the aircraft it was given
analyzeCall_WritesAircraft(analyzer, ac) ==
    LET analysis == analyzeAircraft(ac.track)
    IN  [value |-> analysis,
         aircraft |-> [ac EXCEPT !.is_monitored = analysis.is_monitored,
                                 !.not_monitored_reason = analysis.not_monitored_reason,
                                 !.is_loitering = analysis.is_loitering],
         analyzer |-> analyzer]

\* this.analyzer.analyzeAircraft(aircraft): the value returned, the aircraft
\* object after the call and the analyzer after the call; the method reads
\* aircraft.track only and assigns to neither
analyzeCall(analyzer, ac) ==
    [value |-> analyzeAircraft(ac.track), aircraft |-> ac, analyzer |-> analyzer]

\* tracks along the bowtie route whose samples are over the sea or at the coast
PureTracks == {track \in CoastTracks :
                  \A k \in 1..Len(track) : track[k].distanceToCoast \in {0, 20}}

\* the flags an aircraft object may carry when it is handed to the analyzer
InputFlags ==
    [is_monitored : BOOLEAN, not_monitored_reason : {NoReason, ReasonOverLand},
     is_loitering : BOOLEAN]

CallAnalyze(flags) ==
    LET input == [track |-> gtrack, is_monitored |-> flags.is_monitored,
                  not_monitored_reason |-> flags.not_monitored_reason,
                  is_loitering |-> flags.is_loitering]
        calls == IF gresult = NoResult THEN 0 ELSE gresult.calls
        call == analyzeCall(IF gresult = NoResult THEN NoMemo ELSE gresult.analyzer, input)
    IN  /\ calls < MaxCalls
        /\ gresult' = [op |-> "call", input |-> input, value |-> call.value,
                       aircraft |-> call.aircraft, analyzer |-> call.analyzer,
                       calls |-> calls + 1]
        /\ UNCHANGED <<gtrack, segA, segB>>
        /\ UNCHANGED scannerVars
        /\ UNCHANGED loopVars

\* the next call is given another track
NextTrack(track) ==
    /\ gresult # NoResult
    /\ gtrack' = track
    /\ UNCHANGED <<gresult, segA, segB>>
    /\ UNCHANGED scannerVars
    /\ UNCHANGED loopVars

PureInit ==
    /\ ScannerInit /\ LoopInit
    /\ gtrack \in PureTracks
    /\ gresult = NoResult
    /\ segA = [start |-> [latitude |-> 0, longitude |-> 0],
               end |-> [latitude |-> 0, longitude |-> 0]]
    /\ segB = segA

PureNext ==
    \/ \E flags \in InputFlags : CallAnalyze(flags)
    \/ \E track \in PureTracks : NextTrack(track)

SpecPure == PureInit /\ [][PureNext]_vars

(***************************************************************************)
(* The detector on a path that crosses itself more than once: a V flown    *)
(* from (35.0,12.0) over (35.5,12.25) to (35.0,12.5), then two legs that   *)
(* each cut both arms of the V.                                            *)
(***************************************************************************)
MaxShapeLen == 6      \* longest track cut from the path

\* the path, oldest position first
CrossingPath == <<<<35000, 12000>>, <<35500, 12250>>, <<35000, 12500>>,
                  <<35250, 12600>>, <<35250, 11900>>, <<35400, 12400>>,
                  <<35100, 12400>>>>

\* the tracks, newest first, of an aircraft that has flown the first n
\* positions of the path, each sample with its own attributes
ShapeTracks ==
    UNION {{[k \in 1..n |->
               mkPoint(CrossingPath[n + 1 - k][1], CrossingPath[n + 1 - k][2], n + 1 - k,
                       flavourAltitude(fl[n + 1 - k]), flavourSpeed(fl[n + 1 - k]), 0, 0, 20)] :
              fl \in [1..n -> Flavours]} :
           n \in 1..Min2(MaxShapeLen, Len(CrossingPath))}

ShapeInit ==
    /\ ScannerInit /\ LoopInit
    /\ gtrack \in ShapeTracks
    /\ gresult = NoResult
    /\ segA = [start |-> [latitude |-> 0, longitude |-> 0],
               end |-> [latitude |-> 0, longitude |-> 0]]
    /\ segB = segA

ShapeNext == ApplyAnalyze

SpecShape == ShapeInit /\ [][ShapeNext]_vars

(***************************************************************************)
(* The scanner fed every few seconds with an aircraft that leaves the      *)
(* monitored speed range and comes back.                                   *)
(***************************************************************************)
MaxGraceTrack == 6    \* a sample is ingested only while the track stays this short

\* the clock advances by one update interval or by three
GraceTickMs == {updateIntervalMs, 3 * updateIntervalMs}

\* the next corner of the route, within all thresholds or flown too slowly
GraceSamples(ac, t) ==
    LET c == nextOnRoute(ac)
    IN  {mkPoint(c[1], c[2], t \div 1000, 10000, spd, 0, 0, 20) : spd \in {250, 40}}

\* AircraftScanner.updateAircraft, for tracks of up to MaxGraceTrack samples
GraceUpdate(icao, latest) ==
    LET st == updateAircraft(scannerState, icao, latest, now)
        identical == /\ lastOp.kind = "updateAircraft"
                     /\ lastOp.icao = icao
                     /\ repeatsNewest(aircraft[icao], latest)
    IN  /\ Len(st.aircraft[icao].track) <= MaxGraceTrack
        /\ st.nextId <= MaxEvents + 1
        /\ SetScannerState(st)
        /\ lastOp' = [kind |-> "updateAircraft", icao |-> icao,
                      identical |-> identical]
        /\ UNCHANGED <<now, ticks, outcome>>
        /\ UNCHANGED loopVars
        /\ UNCHANGED geoVars

GraceNext ==
    \/ \E icao \in ICAOS : \E latest \in GraceSamples(aircraft[icao], now) : GraceUpdate(icao, latest)
    \/ \E d \in GraceTickMs : Tick(d)

SpecGrace == Init /\ [][GraceNext]_vars

(***************************************************************************)
(* The scanner fed with reports whose timestamp lags behind the clock: a   *)
(* provider reports the time of its last contact with the aircraft, which  *)
(* may be long before the scan.                                            *)
(***************************************************************************)
\* seconds by which the timestamp of a report may lag: none, or 31 minutes
SampleLagS == {0, 31 * 60}

LaggedSamples(ac, t) ==
    {[latest EXCEPT !.timestamp = @ - lag] :
        latest \in ScanSamples(ac, t), lag \in SampleLagS}

LagNext ==
    \/ \E icao \in ICAOS : \E latest \in LaggedSamples(aircraft[icao], now) :
          UpdateAircraft(icao, latest)
    \/ CleanupInactiveAircraft
    \/ CleanupOldEvents
    \/ \E d \in TickMs : Tick(d)

SpecLag == Init /\ [][LagNext]_vars

(***************************************************************************)
(* The scanner fed every update interval with reports that may arrive out  *)
(* of order by a few seconds.                                              *)
(***************************************************************************)
\* seconds by which the timestamp of a report may be behind the clock
JitterS == {0, 5}

JitterSamples(ac, t) ==
    {[latest EXCEPT !.timestamp = @ - lag] :
        latest \in ScanSamples(ac, t), lag \in {j \in JitterS : j <= t \div 1000}}

JitterNext ==
    \/ \E icao \in ICAOS : \E latest \in JitterSamples(aircraft[icao], now) :
          UpdateAircraft(icao, latest)
    \/ CleanupInactiveAircraft
    \/ Tick(updateIntervalMs)

SpecJitter == Init /\ [][JitterNext]_vars

(***************************************************************************)
(* The scanner tracking two aircraft, with a clock that steps by the       *)
(* inactivity threshold or by five minutes                                 *)
(***************************************************************************)
FleetIcaos == {"a", "b"}

FleetTickMs == {5 * 60 * 1000, INACTIVITY_THRESHOLD_MS}

FleetInit ==
    /\ ScannerInitFor(FleetIcaos) /\ LoopInit /\ GeoInit

\* aircraft a flies the whole route; aircraft b is reported once, at the first
\* corner, and again only after it has been removed
FleetSamples(icao, ac, t) ==
    IF icao = "a" \/ ac = Absent THEN ScanSamples(ac, t) ELSE {}

FleetNext ==
    \/ \E icao \in FleetIcaos : \E latest \in FleetSamples(icao, aircraft[icao], now) :
          UpdateAircraft(icao, latest)
    \/ CleanupInactiveAircraft
    \/ \E d \in FleetTickMs : Tick(d)

SpecFleet == FleetInit /\ [][FleetNext]_vars

(***************************************************************************)
(* The scanner and the notifier.  handleLoiteringDetection saves the event *)
(* and then calls sendNotification, whose promise settles in a later       *)
(* callback: sent, or failed inside Telegram.                              *)
(***************************************************************************)
\* a failure handler that withdraws the event whose notification failed
afterNotifierFailure_Rollback(st, id) ==
    [st EXCEPT !.events = [e \in DOMAIN st.events \ {id} |-> st.events[e]]]

\* catch (error) { logger.error(...) }, in sendMessage and in
\* handleLoiteringDetection: the failure is logged and nothing else is done
afterNotifierFailure(st, id) == st

\* the sendNotification calls that have not settled yet
inFlight == DOMAIN notified \ DOMAIN outcome

NotifierSettles(k, result) ==
    /\ k \in inFlight
    /\ SetScannerState(IF result = "failed"
                       THEN afterNotifierFailure(scannerState, notified[k])
                       ELSE scannerState)
    /\ outcome' = [j \in DOMAIN outcome \cup {k} |->
                      IF j = k THEN [result |-> result, at |-> now] ELSE outcome[j]]
    /\ UNCHANGED <<now, ticks, lastOp>>
    /\ UNCHANGED loopVars
    /\ UNCHANGED geoVars

NotifyNext ==
    \/ \E icao \in ICAOS : \E latest \in ScanSamples(aircraft[icao], now) :
          UpdateAircraft(icao, latest)
    \/ \E k \in DOMAIN notified : \E result \in {"sent", "failed"} : NotifierSettles(k, result)
    \/ Tick(5 * 60 * 1000)

SpecNotify == Init /\ [][NotifyNext]_vars

(***************************************************************************)
(* The scan loop.  Every start() that passes its guard runs its own        *)
(* `while (this.running)` loop; a loop is suspended at `await this.scan()` *)
(* (fetching) or at the sleep in `finally` (sleeping) and other callbacks  *)
(* run in between.                                                         *)
(***************************************************************************)
MaxStarts == 2        \* start() calls that begin a loop in one run

\* what provider.scan may resolve to: no report, or one report per aircraft
Batches(t) ==
    {<< >>} \cup UNION {{<<[icao |-> icao, latest |-> latest]>> :
                             latest \in ScanSamples(aircraft[icao], t)} : icao \in ICAOS}

RECURSIVE ingestBatch(_, _, _)
\* result.aircraft.forEach(scanAc => this.updateAircraft(...))
ingestBatch(st, batch, t) ==
    IF Len(batch) = 0 THEN st
    ELSE ingestBatch(updateAircraft(st, batch[1].icao, batch[1].latest, t), Tail(batch), t)

\* mutant: the cleanup runs before the batch is ingested
scanCycle_CleanupFirst(st, batch, t) ==
    ingestBatch(cleanupInactiveAircraft(st, t), batch, t)

\* await this.scan(); this.cleanupInactiveAircraft();
scanCycle(st, batch, t) == cleanupInactiveAircraft(ingestBatch(st, batch, t), t)

\* a failed cycle that is followed by no pause
sleepingUntil_NoDelay(t, fetch) == [pc |-> "sleeping", wake |-> t, lastFetch |-> fetch]

\* finally { await new Promise(resolve => setTimeout(resolve, this.updateIntervalMs)) };
\* lastFetch is history: how the fetch of the cycle ended
sleepingUntil(t, fetch) ==
    [pc |-> "sleeping", wake |-> t + updateIntervalMs, lastFetch |-> fetch]

\* start(): returns at once while running is set; otherwise sets it, enters the
\* loop and calls scan(), which calls provider.scan
Start ==
    /\ ~running
    /\ starts < MaxStarts
    /\ running' = TRUE
    /\ loops' = Append(loops, [pc |-> "fetching", wake |-> 0, lastFetch |-> "none"])
    /\ starts' = starts + 1
    /\ UNCHANGED scannerVars
    /\ UNCHANGED geoVars

Stop ==
    /\ running' = FALSE
    /\ UNCHANGED <<loops, starts>>
    /\ UNCHANGED scannerVars
    /\ UNCHANGED geoVars

\* provider.scan resolves: the batch is ingested, cleanupInactiveAircraft runs,
\* and the loop goes to sleep in `finally`
FetchResolve(l, batch) ==
    LET st == scanCycle(scannerState, batch, now)
    IN  /\ loops[l].pc = "fetching"
        /\ \A i \in ICAOS : st.aircraft[i] # Absent => Len(st.aircraft[i].track) <= MaxTrack
        /\ st.nextId <= MaxEvents + 1
        /\ SetScannerState(st)
        /\ lastOp' = NoOp
        /\ loops' = [loops EXCEPT ![l] = sleepingUntil(now, "resolved")]
        /\ UNCHANGED <<now, ticks, outcome, running, starts>>
        /\ UNCHANGED geoVars

\* provider.scan rejects: the error is logged and reported, nothing is ingested,
\* and the loop goes to sleep in `finally`
FetchReject(l) ==
    /\ loops[l].pc = "fetching"
    /\ loops' = [loops EXCEPT ![l] = sleepingUntil(now, "rejected")]
    /\ UNCHANGED <<running, starts>>
    /\ UNCHANGED scannerVars
    /\ UNCHANGED geoVars

\* mutant: a loop that never tests the flag again
afterSleep_IgnoresStop(isRunning, fetch) ==
    [pc |-> "fetching", wake |-> 0, lastFetch |-> fetch]

\* while (this.running): the loop scans again or returns
afterSleep(isRunning, fetch) ==
    [pc |-> IF isRunning THEN "fetching" ELSE "exited", wake |-> 0, lastFetch |-> fetch]

\* the sleep ends: `while (this.running)` is tested again
SleepEnd(l) ==
    /\ loops[l].pc = "sleeping"
    /\ now >= loops[l].wake
    /\ loops' = [loops EXCEPT ![l] = afterSleep(running, loops[l].lastFetch)]
    /\ UNCHANGED <<running, starts>>
    /\ UNCHANGED scannerVars
    /\ UNCHANGED geoVars

LoopNext ==
    \/ Start
    \/ Stop
    \/ \E l \in DOMAIN loops : \E batch \in Batches(now) : FetchResolve(l, batch)
    \/ \E l \in DOMAIN loops : FetchReject(l)
    \/ \E l \in DOMAIN loops : SleepEnd(l)
    \/ Tick(updateIntervalMs)

SpecLoop == Init /\ [][LoopNext]_vars

(***************************************************************************)
(* The scan loop when every fetch succeeds, with a clock that steps by the *)
(* update interval or by 25 minutes, between the inactivity threshold and  *)
(* the track retention                                                     *)
(***************************************************************************)
CycleTickMs == {updateIntervalMs, 25 * 60 * 1000}

CycleNext ==
    \/ Start
    \/ Stop
    \/ \E l \in DOMAIN loops : \E batch \in Batches(now) : FetchResolve(l, batch)
    \/ \E l \in DOMAIN loops : SleepEnd(l)
    \/ \E d \in CycleTickMs : Tick(d)

SpecCycle == Init /\ [][CycleNext]_vars

(***************************************************************************)
(* Properties                                                              *)
(***************************************************************************)
\* geometry used to state the properties, independent of areIntersecting
\* a step that is one updateAircraft call for icao: it records itself in
\* lastOp, which the cleanups reset, and unlike the passing of time it leaves
\* the clock alone
isUpdateOf(icao) ==
    /\ lastOp'.kind = "updateAircraft"
    /\ lastOp'.icao = icao
    /\ now' = now
    /\ ticks' = ticks

\* a step in which handleLoiteringDetection ran for icao with a non-empty
\* intersection list
isDetectionOf(icao) ==
    /\ isUpdateOf(icao)
    /\ aircraft'[icao].is_loitering
    /\ Len(getIntersections(aircraft'[icao].track)) > 0

\* the ids of the events of icao with the largest lastUpdated
latestIds(icao) ==
    {id \in DOMAIN events :
        /\ events[id].icao = icao
        /\ \A other \in DOMAIN events :
              events[other].icao = icao => events[other].lastUpdated <= events[id].lastUpdated}

withinWindow(event, t) == t - event.lastUpdated < 10 * 60 * 1000

\* C1: a loitering detection for an icao whose latest event has lastUpdated
\* within the 10 min inactivity window updates that event (same id, no event
\* added, lastUpdated = now); a detection after the window has elapsed creates
\* an event with an id no event has had, and every stored event stays as it was.
C1_Correlation ==
    [][\A icao \in ICAOS : \A id \in latestIds(icao) :
          isDetectionOf(icao) =>
             IF withinWindow(events[id], now)
             THEN /\ DOMAIN events' = DOMAIN events
                  /\ nextId' = nextId
                  /\ events'[id].id = id
                  /\ events'[id].icao = icao
                  /\ events'[id].lastUpdated = now
             ELSE /\ nextId' = nextId + 1
                  /\ DOMAIN events' = DOMAIN events \cup {nextId}
                  /\ nextId \notin DOMAIN events
                  /\ events'[nextId].id = nextId
                  /\ events'[nextId].icao = icao
                  /\ \A old \in DOMAIN events : events'[old] = events[old]]_vars

\* an event that was updated after time had passed, and a later event of the
\* same icao created once the window after that update had elapsed
C1_Witness ==
    \E e1 \in DOMAIN events : \E e2 \in DOMAIN events :
        /\ e1 # e2
        /\ events[e1].icao = events[e2].icao
        /\ events[e1].lastUpdated > events[e1].firstDetected
        /\ events[e2].firstDetected - events[e1].lastUpdated >= 10 * 60 * 1000

timesNotified(id) == Cardinality({k \in DOMAIN notified : notified[k] = id})

\* C3: a new-event notification is sent exactly once for every created event
\* id, also for an event created because the previous event of the icao is
\* older than the inactivity window; none is sent for an update.
C3_Original == \A id \in 1..(nextId - 1) : timesNotified(id) = 1

\* C4: after cleanupOldEvents runs at time now, no listed event has lastUpdated
\* older than now - 7 days, and every event not older than that is still listed
\* and unchanged, whether or not its aircraft is still tracked.
C4_Expiry ==
    [][CleanupOldEvents =>
          /\ \A event \in listEvents(events') :
                ~(event.lastUpdated < now - 7 * 24 * 60 * 60 * 1000)
          /\ \A id \in DOMAIN events :
                events[id].lastUpdated >= now - 7 * 24 * 60 * 60 * 1000
                   => id \in DOMAIN events' /\ events'[id] = events[id]]_vars

\* an event has been expired while a younger one, whose aircraft is no longer
\* tracked, is still listed
C4_Witness ==
    /\ Cardinality(DOMAIN events) < nextId - 1
    /\ \E id \in DOMAIN events :
          /\ aircraft[events[id].icao] = Absent
          /\ events[id].lastUpdated >= now - 7 * 24 * 60 * 60 * 1000

\* C5: after every updateAircraft call (first ingest, non-duplicate sample or
\* discarded duplicate) no stored aircraft holds a track point older than the
\* maximum track age of 30 min.
C5_Original ==
    [][\A icao \in ICAOS :
          isUpdateOf(icao) =>
             \A i \in ICAOS :
                aircraft'[i] # Absent =>
                   \A k \in 1..Len(aircraft'[i].track) :
                      now - aircraft'[i].track[k].timestamp * 1000 <= 30 * 60 * 1000]_vars

\* C6: a second updateAircraft call in a row with a sample equal to the newest
\* point in latitude, longitude, altitude, speed, heading and verticalRate
\* leaves the track and is_monitored, not_monitored_reason and is_loitering as
\* they were after the first call.
C6_Idempotent ==
    [][\A icao \in ICAOS :
          (isUpdateOf(icao) /\ lastOp'.identical) =>
             /\ aircraft'[icao].track = aircraft[icao].track
             /\ aircraft'[icao].is_monitored = aircraft[icao].is_monitored
             /\ aircraft'[icao].not_monitored_reason = aircraft[icao].not_monitored_reason
             /\ aircraft'[icao].is_loitering = aircraft[icao].is_loitering]_vars

\* the last operation was the second of two calls in a row with the same sample,
\* on a track long enough to be loitering
C6_Witness ==
    /\ lastOp.kind = "updateAircraft"
    /\ lastOp.identical
    /\ aircraft[lastOp.icao].is_loitering

\* C2: at most one scan cycle (fetch, batch ingest, cleanup) is in progress at
\* any time, whatever the interleaving of start(), stop(), the fetch and the
\* sleep.
C2_Original == Cardinality({l \in DOMAIN loops : loops[l].pc = "fetching"}) <= 1

orient(a, b, c) ==
    (b.longitude - a.longitude) * (c.latitude - a.latitude)
      - (b.latitude - a.latitude) * (c.longitude - a.longitude)
sign(v) == IF v > 0 THEN 1 ELSE IF v < 0 THEN -1 ELSE 0
samePosition(p, q) == p.latitude = q.latitude /\ p.longitude = q.longitude
nonDegenerate(s) == ~samePosition(s.start, s.end)
sharedEndpoint(s, t) ==
    \/ samePosition(s.start, t.start) \/ samePosition(s.start, t.end)
    \/ samePosition(s.end, t.start) \/ samePosition(s.end, t.end)
\* the segments cross in an X: each one's endpoints lie strictly on opposite
\* sides of the other
crossInX(s, t) ==
    /\ sign(orient(s.start, s.end, t.start)) * sign(orient(s.start, s.end, t.end)) = -1
    /\ sign(orient(t.start, t.end, s.start)) * sign(orient(t.start, t.end, s.end)) = -1
parallel(s, t) ==
    /\ nonDegenerate(s) /\ nonDegenerate(t)
    /\ (s.end.longitude - s.start.longitude) * (t.end.latitude - t.start.latitude)
         = (s.end.latitude - s.start.latitude) * (t.end.longitude - t.start.longitude)
colinear(s, t) ==
    /\ parallel(s, t)
    /\ orient(s.start, s.end, t.start) = 0
\* position of p along the line of s, as a scalar product with s's direction
along(s, p) ==
    (p.longitude - s.start.longitude) * (s.end.longitude - s.start.longitude)
      + (p.latitude - s.start.latitude) * (s.end.latitude - s.start.latitude)
\* colinear segments whose common part has positive length
overlapAlongPortion(s, t) ==
    /\ colinear(s, t)
    /\ Max2(0, Min2(along(s, t.start), along(s, t.end)))
         < Min2(along(s, s.end), Max2(along(s, t.start), along(s, t.end)))

applied(op) == gresult # NoResult /\ gresult.op = op

\* C7: a sample that fails two or more of the four conditions is not monitored
\* and carries the reason of the first failing condition in the order area,
\* sea distance, speed, altitude.
failingRanks(p) ==
    (IF isInGeoBounds(p) THEN {} ELSE {1})
      \cup (IF p.distanceToCoast > MONITORING_THRESHOLDS.coast.minDistance THEN {} ELSE {2})
      \cup (IF p.speed >= MONITORING_THRESHOLDS.speed.min
               /\ p.speed <= MONITORING_THRESHOLDS.speed.max THEN {} ELSE {3})
      \cup (IF p.altitude >= MONITORING_THRESHOLDS.altitude.min
               /\ p.altitude <= MONITORING_THRESHOLDS.altitude.max THEN {} ELSE {4})
reasonRank(reason) ==
    CASE reason = ReasonOutsideArea -> 1
      [] reason = ReasonOverLand -> 2
      [] reason.kind \in {"speed is too slow", "speed is too fast"} -> 3
      [] reason.kind \in {"altitude is too low", "altitude is too high"} -> 4
      [] OTHER -> 0
isBowtie(track) ==
    /\ Len(track) = 4
    /\ crossInX([start |-> track[1], end |-> track[2]], [start |-> track[3], end |-> track[4]])
meetsAll(p) == failingRanks(p) = {}
displacement(track, k) ==
    [dlat |-> track[k].latitude - track[k + 1].latitude,
     dlon |-> track[k].longitude - track[k + 1].longitude]
isStraightMonotonic(track) ==
    /\ Len(track) >= 2
    /\ \A k \in 1..(Len(track) - 1) :
         LET d1 == displacement(track, 1)
             dk == displacement(track, k)
         IN  /\ d1.dlon * dk.dlat - d1.dlat * dk.dlon = 0
             /\ d1.dlon * dk.dlon + d1.dlat * dk.dlat > 0
C9_StraightLine ==
    (applied("analyze") /\ isStraightMonotonic(gtrack))
      => /\ Len(gresult.intersections) = 0
         /\ ~gresult.value.is_loitering
         /\ \A i, j \in 1..(Len(gtrack) - 1) :
               j >= i + 2 => ~areIntersecting(trackSegments(gtrack)[i], trackSegments(gtrack)[j])
C9_Witness ==
    /\ applied("analyze")
    /\ isStraightMonotonic(gtrack)
    /\ Len(gtrack) >= 5
    /\ \A k \in 1..Len(gtrack) : meetsAll(gtrack[k])
    /\ ~gresult.value.is_loitering

C11_Original == \A icao \in ICAOS : aircraft[icao] # Absent => Len(aircraft[icao].track) > 0

\* C12: if provider.scan fails in a cycle, the cycle changes neither the
\* aircraft store nor the event ledger, the loop goes to its normal sleep
\* instead of ending, and its next cycle starts only once the update interval
\* has passed; the loop ends only after stop().
C12_FailedCycle ==
    [][\A l \in DOMAIN loops :
          /\ FetchReject(l) =>
                /\ aircraft' = aircraft
                /\ events' = events
                /\ loops'[l].pc = "sleeping"
                /\ loops'[l].wake = now + 15000
          /\ (loops[l].pc = "sleeping" /\ loops'[l].pc # "sleeping") =>
                /\ now >= loops[l].wake
                /\ loops'[l].pc = (IF running THEN "fetching" ELSE "exited")]_vars

\* a loop whose last fetch failed has begun its next cycle, one interval later
C12_Witness ==
    \E l \in DOMAIN loops :
        /\ loops[l].lastFetch = "rejected"
        /\ loops[l].pc = "fetching"
        /\ now >= 15000

\* C13: a failure of the notifier while sending a new-event notification
\* changes no aircraft record and no event; the event was stored before the
\* notification was handed over, and later ingests update it as usual.
C13_NotifierFailure ==
    [][/\ \A k \in DOMAIN notified :
             NotifierSettles(k, "failed") => (aircraft' = aircraft /\ events' = events)
       /\ Len(notified') > Len(notified) =>
             /\ notified'[Len(notified')] \in DOMAIN events'
             /\ notified'[Len(notified')] \notin DOMAIN events]_vars

\* a notification failed, and a later ingest has updated the event it was about
C13_Witness ==
    \E k \in DOMAIN outcome :
        /\ outcome[k].result = "failed"
        /\ notified[k] \in DOMAIN events
        /\ events[notified[k]].lastUpdated > outcome[k].at

wholeAircraft(ac) ==
    LET analysis == analyzeAircraft(ac.track)
    IN  /\ ac.is_monitored = analysis.is_monitored
        /\ ac.not_monitored_reason = analysis.not_monitored_reason
        /\ ac.is_loitering = analysis.is_loitering

\* the fields of an event come from one detection: the newest points of its
\* track are the aircraft track of that detection, whose intersections and
\* newest sample the event carries, and which was not made before that sample
wholeEvent(event) ==
    /\ Len(event.track) > 0
    /\ Len(event.intersectionPoints) > 0
    /\ \E n \in 1..Len(event.track) :
          event.intersectionPoints = getIntersections(SubSeq(event.track, 1, n))
    /\ event.aircraftState.position.latitude = event.track[1].latitude
    /\ event.aircraftState.position.longitude = event.track[1].longitude
    /\ event.aircraftState.altitude = event.track[1].altitude
    /\ event.aircraftState.speed = event.track[1].speed
    /\ event.aircraftState.heading = event.track[1].heading
    /\ event.aircraftState.verticalRate = event.track[1].verticalRate
    /\ event.firstDetected <= event.lastUpdated
    /\ event.lastUpdated >= event.track[1].timestamp * 1000

olderThanThreshold(ac, t) == t - ac.track[1].timestamp * 1000 > 20 * 60 * 1000

C17_Original ==
    [][CleanupInactiveAircraft =>
          \A i \in DOMAIN aircraft :
             (/\ aircraft[i] # Absent
              /\ Len(aircraft[i].track) > 0
              /\ now - aircraft[i].track[1].timestamp * 1000 > 15 * 60 * 1000)
                => aircraft'[i] = Absent]_vars

strictlyInside(s, p) ==
    /\ orient(s.start, s.end, p) = 0
    /\ 0 < along(s, p) /\ along(s, p) < along(s, s.end)
\* an endpoint of one segment touches the interior of the other
tJunction(s, t) ==
    \/ strictlyInside(s, t.start) \/ strictlyInside(s, t.end)
    \/ strictlyInside(t, s.start) \/ strictlyInside(t, s.end)

\* C20: for non-parallel segments areIntersecting returns true exactly when
\* the crossing point lies strictly inside both segments; a segment whose
\* endpoint touches the interior of the other is not an intersection.
C20_StrictCrossing ==
    (/\ applied("areIntersecting")
     /\ nonDegenerate(segA) /\ nonDegenerate(segB)
     /\ ~parallel(segA, segB))
      => /\ gresult.value <=> crossInX(segA, segB)
         /\ tJunction(segA, segB) => ~gresult.value
C20_Witness ==
    /\ applied("areIntersecting")
    /\ ~parallel(segA, segB)
    /\ tJunction(segA, segB)
    /\ ~sharedEndpoint(segA, segB)
    /\ ~gresult.value

\* the pairs of segments (i, j), j >= i + 2, of a track that intersect and
\* whose four endpoint samples all meet the monitoring requirements
qualifyingPairs(track) ==
    {p \in (1..(Len(track) - 1)) \X (1..(Len(track) - 1)) :
        /\ p[2] >= p[1] + 2
        /\ areIntersecting([start |-> track[p[1]], end |-> track[p[1] + 1]],
                           [start |-> track[p[2]], end |-> track[p[2] + 1]])
        /\ \A k \in {p[1], p[1] + 1, p[2], p[2] + 1} : meetsAll(track[k])}
\* the pair of segment indices an entry of getIntersections was recorded for
pairOf(track, entry) ==
    {p \in (1..(Len(track) - 1)) \X (1..(Len(track) - 1)) :
        /\ entry.segments[1] = [start |-> track[p[1]], end |-> track[p[1] + 1]]
        /\ entry.segments[2] = [start |-> track[p[2]], end |-> track[p[2] + 1]]}

\* C21: getIntersections returns exactly one entry for every pair of segments
\* (i, j), j >= i + 2, that intersect and whose four endpoint samples are all
\* monitored, and nothing else: no adjacent pair, no pair with a non-monitored
\* endpoint, and every qualifying pair, not only the first.
C21_AllIntersections ==
    applied("analyze")
      => /\ Len(gresult.intersections) = Cardinality(qualifyingPairs(gtrack))
         /\ \A p \in qualifyingPairs(gtrack) :
               Cardinality({k \in 1..Len(gresult.intersections) :
                               p \in pairOf(gtrack, gresult.intersections[k])}) = 1
         /\ \A k \in 1..Len(gresult.intersections) :
               pairOf(gtrack, gresult.intersections[k]) \subseteq qualifyingPairs(gtrack)
\* a track with two qualifying pairs and a third intersecting pair that has a
\* non-monitored endpoint
C21_Witness ==
    /\ applied("analyze")
    /\ Len(gresult.intersections) >= 2
    /\ \E i, j \in 1..(Len(gtrack) - 1) :
          /\ j >= i + 2
          /\ areIntersecting(trackSegments(gtrack)[i], trackSegments(gtrack)[j])
          /\ <<i, j>> \notin qualifyingPairs(gtrack)

\* C22: the timestamp of every recorded intersection is the later of the two
\* segments' newer endpoint times: on a newest-first track, the largest
\* timestamp among the four endpoint samples of the two segments.
C22_Original ==
    applied("analyze")
      => \A k \in 1..Len(gresult.intersections) :
            LET entry == gresult.intersections[k]
            IN  \A point \in {entry.segments[1].start, entry.segments[1].end,
                              entry.segments[2].start, entry.segments[2].end} :
                   entry.timestamp >= point.timestamp

\* C23: an aircraft whose track has fewer than 4 points is never loitering:
\* the detector returns no intersection and is_loitering is false.
C23_ShortTrack ==
    (applied("analyze") /\ Len(gtrack) < 4)
      => /\ Len(gresult.intersections) = 0
         /\ ~gresult.value.is_loitering
\* three monitored samples, the newest back at the latitude of the oldest
C23_Witness ==
    /\ applied("analyze")
    /\ Len(gtrack) = 3
    /\ \A k \in 1..3 : meetsAll(gtrack[k])
    /\ gtrack[1].latitude = gtrack[3].latitude
    /\ gresult.value.is_monitored
    /\ ~gresult.value.is_loitering

\* the four conditions on a sample, the range limits included
meetsRequirements(p) ==
    /\ isInGeoBounds(p)
    /\ isOverSea(p)
    /\ MONITORING_THRESHOLDS.speed.min <= p.speed
    /\ p.speed <= MONITORING_THRESHOLDS.speed.max
    /\ MONITORING_THRESHOLDS.altitude.min <= p.altitude
    /\ p.altitude <= MONITORING_THRESHOLDS.altitude.max

\* C24: checkMonitoringRequirements returns is_monitored = true with reason
\* null exactly when the sample is inside the monitoring area, passes the
\* sea-distance check and has speed and altitude within [min, max] inclusive;
\* in every other case is_monitored = false and the reason is a non-null string.
C24_Monitored ==
    applied("classify")
      => IF meetsRequirements(gtrack[1])
         THEN /\ gresult.value.is_monitored
              /\ gresult.value.not_monitored_reason = NoReason
         ELSE /\ ~gresult.value.is_monitored
              /\ gresult.value.not_monitored_reason # NoReason
\* a monitored sample at the lowest speed and the highest altitude allowed
C24_Witness ==
    /\ applied("classify")
    /\ gtrack[1].speed = MONITORING_THRESHOLDS.speed.min
    /\ gtrack[1].altitude = MONITORING_THRESHOLDS.altitude.max
    /\ gresult.value.is_monitored
    /\ gresult.value.not_monitored_reason = NoReason

\* C25: the sea-distance check passes when the distance to the coast is
\* greater than or equal to the configured minimum: a sample whose
\* distanceToCoast equals the threshold is treated as over sea.
C25_Original ==
    (/\ applied("classify")
     /\ gtrack[1].distanceToCoast >= MONITORING_THRESHOLDS.coast.minDistance
     /\ isInGeoBounds(gtrack[1]))
      => gresult.value.not_monitored_reason # ReasonOverLand

\* the grace period: status reset after 30 seconds outside monitoring parameters
MAX_OUTOFRANGE_MS == 30 * 1000

\* the number of newest samples of a track that are not monitored, one after
\* the other
outOfRangeRun(track) ==
    IF \A k \in 1..Len(track) : ~meetsAll(track[k]) THEN Len(track)
    ELSE (CHOOSE k \in 1..Len(track) :
             /\ meetsAll(track[k])
             /\ \A m \in 1..(k - 1) : ~meetsAll(track[m])) - 1
\* how long, at time t, the aircraft has been not monitored without a
\* monitored sample in between: since the oldest sample of that run
outOfRangeFor(track, t) == t - track[outOfRangeRun(track)].timestamp * 1000

\* C26: after an ingest at which the aircraft has been continuously not
\* monitored for longer than the grace period (30 s), counted from the most
\* recent transition to not monitored, is_loitering is false and the cycle
\* evaluates no intersection: it neither creates nor updates an event.
C26_GraceExceeded ==
    [][\A icao \in ICAOS :
          (/\ isUpdateOf(icao)
           /\ outOfRangeRun(aircraft'[icao].track) > 0
           /\ outOfRangeFor(aircraft'[icao].track, now) > MAX_OUTOFRANGE_MS)
            => /\ ~aircraft'[icao].is_loitering
               /\ ~aircraft'[icao].is_monitored
               /\ events' = events
               /\ notified' = notified]_vars
\* an aircraft that had an event, has been too slow for 45 s over two samples
\* and is stored as not loitering, its track still holding the crossing
C26_Witness ==
    \E icao \in ICAOS :
        /\ lastOp.kind = "updateAircraft"
        /\ aircraft[icao] # Absent
        /\ outOfRangeRun(aircraft[icao].track) = 2
        /\ outOfRangeFor(aircraft[icao].track, now) > MAX_OUTOFRANGE_MS
        /\ Len(getIntersections(aircraft[icao].track)) > 0
        /\ getLatestEventByIcao(events, icao) # Absent
        /\ ~aircraft[icao].is_loitering

\* C27: when the newest sample is not monitored but the not-monitored duration
\* has not yet exceeded the grace period, is_loitering is not forced to false:
\* it is what the loitering detector computes from the current track.
C27_Original ==
    [][\A icao \in ICAOS :
          (/\ isUpdateOf(icao)
           /\ outOfRangeRun(aircraft'[icao].track) > 0
           /\ outOfRangeFor(aircraft'[icao].track, now) <= MAX_OUTOFRANGE_MS)
            => aircraft'[icao].is_loitering
                 = (Len(getIntersections(aircraft'[icao].track)) > 0)]_vars

\* an event of the same icao was created after the event id
superseded(id) ==
    \E newer \in DOMAIN events :
        /\ events[newer].icao = events[id].icao
        /\ events[newer].firstDetected > events[id].firstDetected

\* C28: once a newer event exists for the same icao, no later step changes any
\* field of the older event: it is stored with the same field values, or it
\* has been removed by expiry.
C28_Superseded ==
    [][\A id \in DOMAIN events :
          superseded(id)
            => \/ (id \in DOMAIN events' /\ events'[id] = events[id])
               \/ (id \notin DOMAIN events' /\ isExpired(events[id], now)
                     /\ aircraft' = aircraft)]_vars
\* an older event untouched since its creation beside a newer event of the
\* same icao that a later detection has updated
C28_Witness ==
    \E id \in DOMAIN events : \E newer \in DOMAIN events :
        /\ events[newer].icao = events[id].icao
        /\ events[newer].firstDetected > events[id].firstDetected
        /\ events[newer].lastUpdated > events[newer].firstDetected
        /\ events[newer].lastUpdated = now
        /\ events[id].lastUpdated < events[newer].firstDetected
        /\ lastOp.kind = "updateAircraft"

\* C29: a continuing update keeps the event's id, icao and firstDetected, sets
\* lastUpdated to now, replaces intersectionPoints by exactly the latest
\* detector output, and sets aircraftState to the altitude, speed, heading,
\* verticalRate and position of the aircraft's newest track point; in every
\* stored event firstDetected is not later than lastUpdated.
C29_ContinuingUpdate ==
    [][/\ \A icao \in ICAOS : \A id \in latestIds(icao) :
            (isDetectionOf(icao) /\ withinWindow(events[id], now))
              => LET newest == aircraft'[icao].track[1]
                 IN  /\ events'[id].id = events[id].id
                     /\ events'[id].icao = events[id].icao
                     /\ events'[id].firstDetected = events[id].firstDetected
                     /\ events'[id].lastUpdated = now
                     /\ events'[id].intersectionPoints = getIntersections(aircraft'[icao].track)
                     /\ events'[id].aircraftState.altitude = newest.altitude
                     /\ events'[id].aircraftState.speed = newest.speed
                     /\ events'[id].aircraftState.heading = newest.heading
                     /\ events'[id].aircraftState.verticalRate = newest.verticalRate
                     /\ events'[id].aircraftState.position.latitude = newest.latitude
                     /\ events'[id].aircraftState.position.longitude = newest.longitude
       /\ \A id \in DOMAIN events' : events'[id].firstDetected <= events'[id].lastUpdated]_vars
\* an event updated in a later cycle by a detection on a track that has grown
\* by a sample at another position
C29_Witness ==
    \E id \in DOMAIN events :
        /\ lastOp.kind = "updateAircraft"
        /\ events[id].lastUpdated = now
        /\ events[id].lastUpdated > events[id].firstDetected
        /\ Len(events[id].track) > 4
        /\ Len(events[id].intersectionPoints) > 0
        /\ events[id].aircraftState.position.latitude = aircraft[events[id].icao].track[1].latitude
        /\ events[id].aircraftState.position.latitude # events[id].track[2].latitude

\* C30: after every creation and every continuing update of an event, the
\* event's track contains no two points with the same timestamp, whatever
\* aircraft track the store holds, two distinct samples with the same
\* timestamp included.
C30_Original ==
    \A id \in DOMAIN events :
        \A k, m \in 1..Len(events[id].track) :
            events[id].track[k].timestamp = events[id].track[m].timestamp => k = m

\* C31: in every stored aircraft the track is ordered newest first, its
\* timestamps non-increasing from the first point on, after any sequence of
\* ingests, samples that arrive out of order by a few seconds included.
C31_Original ==
    \A icao \in ICAOS :
        aircraft[icao] # Absent
          => \A k, m \in 1..Len(aircraft[icao].track) :
                k < m => aircraft[icao].track[k].timestamp >= aircraft[icao].track[m].timestamp

\* C32: no event created or updated by the scanner ever has an empty
\* intersectionPoints list: when the detector output is empty, the ingest
\* neither creates nor modifies any event.
C32_NonEmptyIntersections ==
    [][/\ \A id \in DOMAIN events' : Len(events'[id].intersectionPoints) > 0
       /\ \A icao \in ICAOS :
             (isUpdateOf(icao) /\ Len(getIntersections(aircraft'[icao].track)) = 0)
               => /\ events' = events
                  /\ nextId' = nextId
                  /\ notified' = notified]_vars
\* an aircraft that has an event is ingested again with a track on which the
\* detector finds nothing
C32_Witness ==
    \E icao \in ICAOS :
        /\ lastOp.kind = "updateAircraft"
        /\ aircraft[icao] # Absent
        /\ Len(aircraft[icao].track) > 0
        /\ Len(getIntersections(aircraft[icao].track)) = 0
        /\ \E id \in DOMAIN events :
              events[id].icao = icao /\ Len(events[id].intersectionPoints) > 0

\* a step in which loop l ingests the batch its fetch resolved to
isCycleOf(l) ==
    /\ l \in DOMAIN loops
    /\ loops[l].pc = "fetching"
    /\ loops'[l].pc = "sleeping"
    /\ loops'[l].lastFetch = "resolved"

\* C33: within one scan cycle every report of the fetched batch is ingested
\* (and its loitering event stored) before cleanupInactiveAircraft runs, the
\* cleanup runs after the batch, and the loop ingests no report of its next
\* cycle before the sleep interval has elapsed.
C33_CycleOrder ==
    [][/\ \A l \in DOMAIN loops :
            /\ isCycleOf(l)
                 => /\ \A icao \in ICAOS :
                          aircraft'[icao] # Absent
                            => /\ Len(aircraft'[icao].track) > 0
                               /\ aircraft'[icao].track[1].timestamp * 1000
                                    >= now - 20 * 60 * 1000
                    /\ \A icao \in ICAOS :
                          (/\ aircraft[icao] # Absent
                           /\ aircraft'[icao] # Absent
                           /\ aircraft'[icao].track # aircraft[icao].track)
                            => aircraft'[icao].track
                                 = <<aircraft'[icao].track[1]>>
                                     \o SelectSeq(aircraft[icao].track,
                                                  LAMBDA point :
                                                    point.timestamp * 1000 > now - 30 * 60 * 1000)
                    /\ loops'[l].wake = now + updateIntervalMs
            /\ (loops[l].pc = "sleeping" /\ loops'[l].pc # "sleeping")
                 => /\ now >= loops[l].wake
                    /\ aircraft' = aircraft
                    /\ events' = events
       /\ (aircraft' # aircraft \/ events' # events)
            => \E l \in DOMAIN loops : isCycleOf(l)]_vars
\* a cycle has ingested a report for an aircraft last seen 25 minutes before:
\* the aircraft is kept, with the new point in front of the old ones
C33_Witness ==
    \E l \in DOMAIN loops : \E icao \in ICAOS :
        /\ loops[l].pc = "sleeping"
        /\ loops[l].lastFetch = "resolved"
        /\ loops[l].wake = now + updateIntervalMs
        /\ aircraft[icao] # Absent
        /\ Len(aircraft[icao].track) >= 2
        /\ aircraft[icao].track[1].timestamp * 1000 = now
        /\ aircraft[icao].track[2].timestamp * 1000 < now - 20 * 60 * 1000

\* the batches the fetch of a cycle at time t may have resolved to that hold a
\* report for icao, its timestamp the time of the scan
batchesReporting(icao, t) ==
    {batch \in Batches(t) :
        \E k \in 1..Len(batch) :
            batch[k].icao = icao /\ batch[k].latest.timestamp = t \div 1000}

\* C34: an aircraft is removed by cleanupInactiveAircraft only if no report for
\* it has been ingested within the inactivity threshold: a cycle that ingests a
\* report for a tracked aircraft with a fresh timestamp does not remove it,
\* even when the report repeats the position, altitude, speed, heading and
\* vertical rate of the previous one.
C34_Original ==
    [][\A l \in DOMAIN loops : \A icao \in ICAOS :
          (/\ isCycleOf(l)
           /\ aircraft[icao] # Absent
           /\ \E batch \in batchesReporting(icao, now) :
                 scannerState' = scanCycle(scannerState, batch, now))
            => aircraft'[icao] # Absent]_vars

\* an event is open at time t: its lastUpdated is within the inactivity window
isOpen(event, t) == event.lastUpdated > t - 10 * 60 * 1000
openEvents(evs, icao, t) == {id \in DOMAIN evs : evs[id].icao = icao /\ isOpen(evs[id], t)}

\* C35: at every moment at most one event per icao is open; a new event for an
\* icao is created only when every existing event of that icao is outside the
\* window.
C35_OneOpenEvent ==
    [][/\ \A icao \in ICAOS : Cardinality(openEvents(events', icao, now')) <= 1
       /\ \A icao \in ICAOS :
             (isUpdateOf(icao) /\ nextId' # nextId)
               => openEvents(events, icao, now) = {}]_vars
\* a second event of an icao has just been created beside a first one that is
\* no longer open
C35_Witness ==
    \E icao \in ICAOS : \E id \in DOMAIN events :
        /\ lastOp.kind = "updateAircraft"
        /\ events[id].icao = icao
        /\ ~isOpen(events[id], now)
        /\ Cardinality(openEvents(events, icao, now)) = 1
        /\ \E newer \in openEvents(events, icao, now) : events[newer].firstDetected = now

C37_NotLoiteringFrame ==
    [][\A icao \in ICAOS :
          (isUpdateOf(icao) /\ ~aircraft'[icao].is_loitering)
            => /\ events' = events
               /\ nextId' = nextId
               /\ notified' = notified]_vars
\* an update has just stored as not loitering an aircraft whose track crosses
\* itself and whose latest event is still open
C37_Witness ==
    \E icao \in ICAOS :
        /\ lastOp.kind = "updateAircraft"
        /\ lastOp.icao = icao
        /\ aircraft[icao] # Absent
        /\ ~aircraft[icao].is_loitering
        /\ Len(getIntersections(aircraft[icao].track)) > 0
        /\ openEvents(events, icao, now) # {}

\* C38: if stop() is called and start() is not called afterwards, no new
\* provider scan begins after the cycle in progress, and the loop terminates
\* once its current sleep ends: while running stays false no loop is added, no
\* loop enters the fetch, a loop whose sleep ends has exited, and an exited
\* loop stays exited.
C38_StopEndsLoop ==
    [][(~running /\ ~running')
         => /\ DOMAIN loops' = DOMAIN loops
            /\ \A l \in DOMAIN loops :
                  /\ loops'[l].pc = "fetching" => loops[l].pc = "fetching"
                  /\ (loops[l].pc = "sleeping" /\ loops'[l].pc # "sleeping")
                       => loops'[l].pc = "exited"
                  /\ loops[l].pc = "exited" => loops'[l].pc = "exited"]_vars
\* stopped, a loop has finished a scan, slept through its interval and exited
C38_Witness ==
    /\ ~running
    /\ \E l \in DOMAIN loops :
          /\ loops[l].pc = "exited"
          /\ loops[l].lastFetch = "resolved"
          /\ now >= updateIntervalMs

\* a segment with its start and end exchanged
reversed(s) == [start |-> s.end, end |-> s.start]

\* C39: areIntersecting is symmetric: for all segments s1 and s2,
\* areIntersecting(s1, s2) = areIntersecting(s2, s1), and the result does not
\* change when the start and end of either segment are swapped.
C39_Original ==
    applied("areIntersecting")
      => /\ gresult.value = areIntersectingFine(segB, segA)
         /\ gresult.value = areIntersectingFine(reversed(segA), segB)
         /\ gresult.value = areIntersectingFine(segA, reversed(segB))

====
